---- MODULE Spec2Model ----
(***************************************************************************)
(* RateLimitService (src/src/services/ratelimit.ts): the D1-backed login   *)
(* attempt guard and the fixed-window write budget; getClientIdentifier.   *)
(*                                                                         *)
(* Every invocation runs in its own process.  One action is one store      *)
(* statement together with the synchronous code that follows it up to the  *)
(* next await (or the return).  Date.now() reads the variable clock, which *)
(* the environment advances between any two steps.                         *)
(***************************************************************************)
EXTENDS Integers, Sequences, FiniteSets, TLC

\* ------------------------------------------------------------- CONFIG
LOGIN_MAX_ATTEMPTS == 5
LOGIN_LOCKOUT_MINUTES == 2
API_WRITE_REQUESTS_PER_MINUTE == 120
API_WINDOW_SECONDS == 60

\* CONFIG.LOGIN_LOCKOUT_MINUTES * 60 * 1000 and CONFIG.LOGIN_LOCKOUT_MINUTES * 60
LOCKOUT_DURATION == LOGIN_LOCKOUT_MINUTES * 60 * 1000
LOCKOUT_SECONDS == LOGIN_LOCKOUT_MINUTES * 60

\* SQL NULL in the locked_until column
NULL == -1

\* ------------------------------------------------------------- bounds
\* processes that may run invocations concurrently
MaxProcs == 2
\* invocations started in one run of the concurrent specifications
MaxCalls == 3
\* clock advances in one run of the concurrent login and write budget specifications
MaxTicks == 1
MaxBudgetTicks == 2
\* the same in one run of the sequential login specification
MaxSeqCalls == 7
MaxSeqTicks == 3
\* the same in one run of the sequential write budget specification
MaxRunCalls == 122
MaxRunTicks == 2
\* invocations started in one run of the specification with store failures
MaxFaultCalls == 2
\* the same in one run of the write budget across a window boundary
MaxSpanCalls == 241
MaxSpanTicks == 1
\* characters in the value of a request header
MaxHeaderLen == 3

Procs == 1 .. MaxProcs
SeqProcs == {1}

\* The amounts by which the clock advances (milliseconds).  One invocation at a
\* time: one millisecond, and one millisecond less than the lockout, so that a
\* lock is observed freshly set, one millisecond before its expiry, at the
\* instant of its expiry and after it.  Interleaved invocations: the lockout, so
\* that a statement runs a whole lockout after its invocation read the clock.
\* Write budget: one millisecond, and one millisecond less than a window, so that
\* a window is observed in its first and in its last second.
SeqTickSteps == {1, LOCKOUT_DURATION - 1}
TickSteps == {LOCKOUT_DURATION}
BudgetTickSteps == {1, API_WINDOW_SECONDS * 1000 - 1}

\* ------------------------------------------------------------- strings
\* A string is a sequence of characters.
unknown == <<"u", "n", "k", "n", "o", "w", "n">>

IsSpace(c) == c = " "

RECURSIVE TrimStart(_)
TrimStart(s) ==
    IF s # <<>> /\ IsSpace(Head(s)) THEN TrimStart(Tail(s)) ELSE s

RECURSIVE TrimEnd(_)
TrimEnd(s) ==
    IF s # <<>> /\ IsSpace(s[Len(s)]) THEN TrimEnd(SubSeq(s, 1, Len(s) - 1)) ELSE s

\* String.prototype.trim
Trim(s) == TrimEnd(TrimStart(s))

\* const key = ip.trim() || 'unknown'
Key(ip) == IF Trim(ip) # <<>> THEN Trim(ip) ELSE unknown

\* the ip arguments of the login operations, and the identifier arguments of
\* consumeApiWriteBudget
IpInputs == {<<"a">>, <<" ", "a", " ">>, <<" ">>}
IdentifierInputs == {<<"a">>, <<" ", "a">>}

\* ------------------------------------------------------------- getClientIdentifier
\* A header of a request: absent (Headers.get returns null) or present with a
\* value, which may be the empty string.
Absent == [present |-> FALSE, value |-> <<>>]
Present(v) == [present |-> TRUE, value |-> v]
NoHeaders == [cf |-> Absent, xff |-> Absent]
NotResolved == [resolved |-> FALSE, value |-> <<>>]

\* if (cfIp), if (forwardedFor): null and the empty string are falsy
Given(header) == header.present /\ header.value # <<>>

\* forwardedFor.split(',')[0]
RECURSIVE FirstEntry(_)
FirstEntry(s) ==
    IF s = <<>> \/ Head(s) = "," THEN <<>>
    ELSE <<Head(s)>> \o FirstEntry(Tail(s))

getClientIdentifier(request) ==
    IF Given(request.cf) THEN request.cf.value
    ELSE IF Given(request.xff) THEN Trim(FirstEntry(request.xff.value))
    ELSE unknown

\* the header values of the requests: every string of at most MaxHeaderLen
\* characters out of two address characters, the comma and the space, as
\* request.headers holds it (a value has no leading or trailing whitespace)
HeaderChars == {"a", "b", ",", " "}
HeaderValues ==
    {s \in UNION {[1 .. n -> HeaderChars] : n \in 0 .. MaxHeaderLen} : Trim(s) = s}
HeaderInputs == {Absent} \cup {Present(v) : v \in HeaderValues}

\* ------------------------------------------------------------- arithmetic
Max(a, b) == IF a >= b THEN a ELSE b

\* faulty variant: the remaining milliseconds rounded down
FloorSeconds(ms) == ms \div 1000

\* Math.ceil(ms / 1000) for ms >= 0
CeilSeconds(ms) == (ms + 999) \div 1000

\* Math.floor(Date.now() / 1000)
NowSec(ms) == ms \div 1000

\* nowSec - (nowSec % CONFIG.API_WINDOW_SECONDS)
WindowStart(nowSec) == nowSec - (nowSec % API_WINDOW_SECONDS)

\* JavaScript truthiness of a nullable number (row.locked_until && ...)
Truthy(x) == x # NULL /\ x # 0

\* ------------------------------------------------------------- tables
\* A table is a function from the primary keys of its rows to the rows.
\* .first(): the result set of a statement is <<>> (null) or <<row>>.
First(table, k) == IF k \in DOMAIN table THEN <<table[k]>> ELSE <<>>

Put(table, k, row) ==
    [x \in DOMAIN table \cup {k} |-> IF x = k THEN row ELSE table[x]]

\* faulty variant: the delete spares a row that carries no lock
DeleteRowIfLocked(table, k) ==
    [x \in {y \in DOMAIN table : y # k \/ table[y].locked_until = NULL} |-> table[x]]

\* DELETE FROM login_attempts_ip WHERE ip = ?
DeleteRow(table, k) == [x \in DOMAIN table \ {k} |-> table[x]]

\* faulty variant: INSERT OR REPLACE, a conflict starts the count again
UpsertAttemptReplace(table, k, now) ==
    Put(table, k, [attempts |-> 1, locked_until |-> NULL, updated_at |-> now])

\* INSERT INTO login_attempts_ip ... VALUES(?, 1, NULL, ?)
\* ON CONFLICT(ip) DO UPDATE SET attempts = attempts + 1, updated_at = excluded.updated_at
UpsertAttempt(table, k, now) ==
    IF k \in DOMAIN table
    THEN Put(table, k, [table[k] EXCEPT !.attempts = @ + 1, !.updated_at = now])
    ELSE Put(table, k, [attempts |-> 1, locked_until |-> NULL, updated_at |-> now])

\* UPDATE login_attempts_ip SET locked_until = ?, updated_at = ? WHERE ip = ?
UpdateLock(table, k, lockedUntil, now) ==
    IF k \in DOMAIN table
    THEN Put(table, k, [table[k] EXCEPT !.locked_until = lockedUntil, !.updated_at = now])
    ELSE table

\* faulty variant: the guard lets a row at the limit through
UnderLimitInclusive(count, limit) == count <= limit

\* faulty variant: the guard is given twice the limit
UnderLimitDoubled(count, limit) == count < 2 * limit

\* the ON CONFLICT ... WHERE api_rate_limits.count < ? guard
UnderLimit(count, limit) == count < limit

\* faulty variant: the conflicting row is incremented whatever its count
UpsertCountUnguarded(table, k, limit) ==
    IF k \notin DOMAIN table THEN Put(table, k, [count |-> 1])
    ELSE Put(table, k, [count |-> table[k].count + 1])

\* INSERT INTO api_rate_limits ... VALUES(?, ?, 1) ON CONFLICT(identifier, window_start)
\* DO UPDATE SET count = count + 1 WHERE api_rate_limits.count < ?
UpsertCount(table, k, limit) ==
    IF k \notin DOMAIN table THEN Put(table, k, [count |-> 1])
    ELSE IF UnderLimit(table[k].count, limit)
         THEN Put(table, k, [count |-> table[k].count + 1])
         ELSE table

\* faulty variant: the statement returns the row also when the guard kept it unchanged
ReturningAlways(table, k, limit) == <<UpsertCount(table, k, limit)[k]>>

\* ... RETURNING count: the written row, or no row when the WHERE guard failed
Returning(table, k, limit) ==
    IF k \notin DOMAIN table \/ UnderLimit(table[k].count, limit)
    THEN <<UpsertCount(table, k, limit)[k]>>
    ELSE <<>>

\* ------------------------------------------------------------- state
VARIABLES
    clock,                \* Date.now(), milliseconds
    loginIpTableReady,    \* RateLimitService.loginIpTableReady of each process
    tableExists,          \* whether login_attempts_ip has been created
    login_attempts_ip,    \* the table: key -> [attempts, locked_until, updated_at]
    api_rate_limits,      \* the table: <<identifier, window_start>> -> [count]
    inv,                  \* the invocation each process is running
    failures,             \* history: upserts of recordFailedLogin on a key since its row was last absent
    cleared,              \* history: a clearLoginAttempts deleted the key and no recordFailedLogin statement ran since
    lastLocked,           \* history: now of the last recordFailedLogin that returned locked on the key's present row, or NULL
    consumed,             \* history: per window row, the count at the start and the calls allowed / refused since
    callsLeft,            \* invocations the run may still start
    ticksLeft,            \* clock advances the run may still make
    accepted,             \* history: per tracked identifier and sampled second, the calls allowed
    headers,              \* the headers of the request whose client is being identified
    client                \* what getClientIdentifier returned for it, once it has

vars == <<clock, loginIpTableReady, tableExists, login_attempts_ip, api_rate_limits,
          inv, failures, cleared, lastLocked, consumed, callsLeft, ticksLeft,
          accepted, headers, client>>

LoginKeys == {Key(ip) : ip \in IpInputs}

\* A process that runs no invocation.  An invocation keeps its locals: key (the
\* identifier of consumeApiWriteBudget), now (nowSec there), windowStart, row (the
\* result set of its SELECT or RETURNING) and res (what it returns: <<>> until
\* then, and for clearLoginAttempts).  History: old is what the key's row held
\* before this invocation's upsert, afterClear is the value of cleared when its
\* SELECT ran.  error is <<>> until a store statement of the invocation rejects,
\* and then names that statement: the invocation's promise rejects with it.
Idle ==
    [pc |-> "idle", op |-> "none", key |-> <<>>, now |-> 0, windowStart |-> 0,
     row |-> <<>>, res |-> <<>>, old |-> <<>>, afterClear |-> FALSE, error |-> <<>>]

\* ------------------------------------------------------------- helpers
Enter(p, op, k, now, pc) ==
    [inv EXCEPT ![p] = [Idle EXCEPT !.pc = pc, !.op = op, !.key = k, !.now = now]]

Finish(p, result) ==
    [inv EXCEPT ![p].pc = "done", ![p].res = <<result>>]

\* ensureLoginIpTable: CREATE TABLE IF NOT EXISTS unless this process has already
\* seen it succeed; the statement leaves the rows of an existing table alone.
ensureLoginIpTable(p) ==
    IF loginIpTableReady[p]
    THEN UNCHANGED <<loginIpTableReady, tableExists>>
    ELSE /\ tableExists' = TRUE
         /\ loginIpTableReady' = [loginIpTableReady EXCEPT ![p] = TRUE]

\* an invocation starts on the lowest free process
CanCall(p) ==
    /\ inv[p].pc = "idle"
    /\ callsLeft > 0
    /\ \A q \in Procs : q < p => inv[q].pc # "idle"

\* history: what a key's record counted and locked before a statement changed it
Before(table, k) ==
    IF k \in DOMAIN table
    THEN <<[attempts |-> table[k].attempts, locked_until |-> table[k].locked_until]>>
    ELSE <<>>

\* ------------------------------------------------------------- checkLoginAttempt
\* faulty variant: the failure being checked is counted as if already recorded
CheckOutcomeOffByOne(row, now) ==
    IF row = <<>>
    THEN [delete |-> FALSE,
          res |-> [allowed |-> TRUE, remainingAttempts |-> LOGIN_MAX_ATTEMPTS]]
    ELSE IF Truthy(row[1].locked_until) /\ row[1].locked_until > now
    THEN [delete |-> FALSE,
          res |-> [allowed |-> FALSE, remainingAttempts |-> 0,
                   retryAfterSeconds |-> CeilSeconds(row[1].locked_until - now)]]
    ELSE IF Truthy(row[1].locked_until) /\ row[1].locked_until <= now
    THEN [delete |-> TRUE,
          res |-> [allowed |-> TRUE, remainingAttempts |-> LOGIN_MAX_ATTEMPTS]]
    ELSE [delete |-> FALSE,
          res |-> [allowed |-> TRUE,
                   remainingAttempts |-> Max(0, LOGIN_MAX_ATTEMPTS - row[1].attempts - 1)]]

\* faulty variant: a lock is still active at the instant it expires
CheckOutcomeInclusive(row, now) ==
    IF row = <<>>
    THEN [delete |-> FALSE,
          res |-> [allowed |-> TRUE, remainingAttempts |-> LOGIN_MAX_ATTEMPTS]]
    ELSE IF Truthy(row[1].locked_until) /\ row[1].locked_until >= now
    THEN [delete |-> FALSE,
          res |-> [allowed |-> FALSE, remainingAttempts |-> 0,
                   retryAfterSeconds |-> CeilSeconds(row[1].locked_until - now)]]
    ELSE IF Truthy(row[1].locked_until) /\ row[1].locked_until < now
    THEN [delete |-> TRUE,
          res |-> [allowed |-> TRUE, remainingAttempts |-> LOGIN_MAX_ATTEMPTS]]
    ELSE [delete |-> FALSE,
          res |-> [allowed |-> TRUE,
                   remainingAttempts |-> Max(0, LOGIN_MAX_ATTEMPTS - row[1].attempts)]]

\* the branches after the SELECT: what is returned, or that the DELETE follows
CheckOutcome(row, now) ==
    IF row = <<>>
    THEN [delete |-> FALSE,
          res |-> [allowed |-> TRUE, remainingAttempts |-> LOGIN_MAX_ATTEMPTS]]
    ELSE IF Truthy(row[1].locked_until) /\ row[1].locked_until > now
    THEN [delete |-> FALSE,
          res |-> [allowed |-> FALSE, remainingAttempts |-> 0,
                   retryAfterSeconds |-> CeilSeconds(row[1].locked_until - now)]]
    ELSE IF Truthy(row[1].locked_until) /\ row[1].locked_until <= now
    THEN [delete |-> TRUE,
          res |-> [allowed |-> TRUE, remainingAttempts |-> LOGIN_MAX_ATTEMPTS]]
    ELSE [delete |-> FALSE,
          res |-> [allowed |-> TRUE,
                   remainingAttempts |-> Max(0, LOGIN_MAX_ATTEMPTS - row[1].attempts)]]

CheckCall(p, ip) ==
    /\ CanCall(p)
    /\ ensureLoginIpTable(p)
    /\ inv' = Enter(p, "checkLoginAttempt", Key(ip), clock, "select")
    /\ callsLeft' = callsLeft - 1
    /\ UNCHANGED <<clock, login_attempts_ip, api_rate_limits, failures, cleared, lastLocked,
                   consumed, ticksLeft,
                   accepted, headers, client>>

\* SELECT attempts, locked_until FROM login_attempts_ip WHERE ip = ?
CheckSelect(p) ==
    LET me == inv[p]
        found == First(login_attempts_ip, me.key)
        row == IF found = <<>> THEN <<>>
               ELSE <<[attempts |-> found[1].attempts,
                       locked_until |-> found[1].locked_until]>>
        out == CheckOutcome(row, me.now)
    IN  /\ me.pc = "select" /\ me.op = "checkLoginAttempt"
        /\ tableExists
        /\ inv' = [inv EXCEPT ![p].row = row,
                              ![p].afterClear = cleared[me.key],
                              ![p].pc = IF out.delete THEN "delete" ELSE "done",
                              ![p].res = IF out.delete THEN <<>> ELSE <<out.res>>]
        /\ UNCHANGED <<clock, loginIpTableReady, tableExists, login_attempts_ip,
                       api_rate_limits, failures, cleared, lastLocked, consumed, callsLeft, ticksLeft,
                   accepted, headers, client>>

\* DELETE FROM login_attempts_ip WHERE ip = ?  (the lock read has expired)
CheckDelete(p) ==
    LET me == inv[p]
    IN  /\ me.pc = "delete" /\ me.op = "checkLoginAttempt"
        /\ tableExists
        /\ login_attempts_ip' = DeleteRow(login_attempts_ip, me.key)
        /\ failures' = [failures EXCEPT ![me.key] = 0]
        /\ lastLocked' = [lastLocked EXCEPT ![me.key] = NULL]
        /\ inv' = Finish(p, CheckOutcome(me.row, me.now).res)
        /\ UNCHANGED <<clock, loginIpTableReady, tableExists, api_rate_limits,
                       cleared, consumed, callsLeft, ticksLeft,
                   accepted, headers, client>>

\* ------------------------------------------------------------- recordFailedLogin
\* const attempts = row?.attempts || 1
AttemptsRead(row) == IF row # <<>> /\ row[1].attempts # 0 THEN row[1].attempts ELSE 1

\* faulty variant: the lock waits for one failure more
ExceededThreshold(attempts) == attempts > LOGIN_MAX_ATTEMPTS

\* if (attempts >= CONFIG.LOGIN_MAX_ATTEMPTS)
ReachedThreshold(attempts) == attempts >= LOGIN_MAX_ATTEMPTS

\* const lockedUntil = now + CONFIG.LOGIN_LOCKOUT_MINUTES * 60 * 1000
LockedUntil(now) == now + LOCKOUT_DURATION

RecordCall(p, ip) ==
    /\ CanCall(p)
    /\ ensureLoginIpTable(p)
    /\ inv' = Enter(p, "recordFailedLogin", Key(ip), clock, "upsert")
    /\ callsLeft' = callsLeft - 1
    /\ UNCHANGED <<clock, login_attempts_ip, api_rate_limits, failures, cleared, lastLocked,
                   consumed, ticksLeft,
                   accepted, headers, client>>

\* the atomic UPSERT
RecordUpsert(p) ==
    LET me == inv[p]
    IN  /\ me.pc = "upsert" /\ me.op = "recordFailedLogin"
        /\ tableExists
        /\ login_attempts_ip' = UpsertAttempt(login_attempts_ip, me.key, me.now)
        /\ failures' = [failures EXCEPT ![me.key] = @ + 1]
        /\ cleared' = [cleared EXCEPT ![me.key] = FALSE]
        /\ inv' = [inv EXCEPT ![p].pc = "selectAttempts",
                              ![p].old = Before(login_attempts_ip, me.key)]
        /\ UNCHANGED <<clock, loginIpTableReady, tableExists, api_rate_limits,
                       lastLocked, consumed, callsLeft, ticksLeft,
                   accepted, headers, client>>

\* SELECT attempts FROM login_attempts_ip WHERE ip = ?
RecordSelect(p) ==
    LET me == inv[p]
        found == First(login_attempts_ip, me.key)
        row == IF found = <<>> THEN <<>> ELSE <<[attempts |-> found[1].attempts]>>
    IN  /\ me.pc = "selectAttempts" /\ me.op = "recordFailedLogin"
        /\ tableExists
        /\ inv' = [inv EXCEPT ![p].row = row,
                              ![p].pc = IF ReachedThreshold(AttemptsRead(row))
                                        THEN "updateLock" ELSE "done",
                              ![p].res = IF ReachedThreshold(AttemptsRead(row))
                                         THEN <<>> ELSE <<[locked |-> FALSE]>>]
        /\ UNCHANGED <<clock, loginIpTableReady, tableExists, login_attempts_ip,
                       api_rate_limits, failures, cleared, lastLocked, consumed, callsLeft, ticksLeft,
                   accepted, headers, client>>

\* UPDATE login_attempts_ip SET locked_until = ?, updated_at = ? WHERE ip = ?
RecordLock(p) ==
    LET me == inv[p]
    IN  /\ me.pc = "updateLock" /\ me.op = "recordFailedLogin"
        /\ tableExists
        /\ login_attempts_ip' =
               UpdateLock(login_attempts_ip, me.key, LockedUntil(me.now), me.now)
        /\ cleared' = [cleared EXCEPT ![me.key] = FALSE]
        /\ lastLocked' = [lastLocked EXCEPT ![me.key] =
                             IF me.key \in DOMAIN login_attempts_ip THEN me.now ELSE NULL]
        /\ inv' = Finish(p, [locked |-> TRUE, retryAfterSeconds |-> LOCKOUT_SECONDS])
        /\ UNCHANGED <<clock, loginIpTableReady, tableExists, api_rate_limits,
                       failures, consumed, callsLeft, ticksLeft,
                   accepted, headers, client>>

\* ------------------------------------------------------------- clearLoginAttempts
ClearCall(p, ip) ==
    /\ CanCall(p)
    /\ ensureLoginIpTable(p)
    /\ inv' = Enter(p, "clearLoginAttempts", Key(ip), 0, "delete")
    /\ callsLeft' = callsLeft - 1
    /\ UNCHANGED <<clock, login_attempts_ip, api_rate_limits, failures, cleared, lastLocked,
                   consumed, ticksLeft,
                   accepted, headers, client>>

\* DELETE FROM login_attempts_ip WHERE ip = ?
ClearDelete(p) ==
    LET me == inv[p]
    IN  /\ me.pc = "delete" /\ me.op = "clearLoginAttempts"
        /\ tableExists
        /\ login_attempts_ip' = DeleteRow(login_attempts_ip, me.key)
        /\ failures' = [failures EXCEPT ![me.key] = 0]
        /\ cleared' = [cleared EXCEPT ![me.key] = TRUE]
        /\ lastLocked' = [lastLocked EXCEPT ![me.key] = NULL]
        /\ inv' = [inv EXCEPT ![p].pc = "done"]
        /\ UNCHANGED <<clock, loginIpTableReady, tableExists, api_rate_limits,
                       consumed, callsLeft, ticksLeft,
                   accepted, headers, client>>

\* ------------------------------------------------------------- environment
\* the caller takes the result; the process is free for its next invocation
Return(p) ==
    /\ inv[p].pc = "done"
    /\ inv' = [inv EXCEPT ![p] = Idle]
    /\ UNCHANGED <<clock, loginIpTableReady, tableExists, login_attempts_ip,
                   api_rate_limits, failures, cleared, lastLocked, consumed, callsLeft, ticksLeft,
                   accepted, headers, client>>

\* time passes
Tick(steps) ==
    /\ ticksLeft > 0
    /\ \E d \in steps : clock' = clock + d
    /\ ticksLeft' = ticksLeft - 1
    /\ UNCHANGED <<loginIpTableReady, tableExists, login_attempts_ip, api_rate_limits,
                   inv, failures, cleared, lastLocked, consumed, callsLeft,
                   accepted, headers, client>>

\* ------------------------------------------------------------- store failures
\* the positions at which an invocation awaits a statement of the store
Statements == {"select", "delete", "upsert", "selectAttempts", "updateLock"}

\* faulty variant: the rejection is swallowed and the invocation goes on from
\* where it was
ThrowIgnored(me, statement) == [me EXCEPT !.error = <<statement>>]

\* an awaited statement rejects: no method has a try/catch, so the rejection
\* leaves the method at once and becomes the rejection of its promise
Throw(me, statement) == [me EXCEPT !.pc = "failed", !.error = <<statement>>]

\* a statement of a running invocation fails; the store applies none of it
StoreFails(p) ==
    /\ inv[p].pc \in Statements
    /\ inv' = [inv EXCEPT ![p] = Throw(inv[p], inv[p].pc)]
    /\ UNCHANGED <<clock, loginIpTableReady, tableExists, login_attempts_ip,
                   api_rate_limits, failures, cleared, lastLocked, consumed, callsLeft, ticksLeft,
                   accepted, headers, client>>

\* faulty variant: the flag is raised before the CREATE TABLE is awaited
FlagAfterRejection(ready, p) == [ready EXCEPT ![p] = TRUE]

\* ensureLoginIpTable when its CREATE TABLE rejects: the assignment of the flag
\* comes after the await and is not reached
FlagAfterFailure(ready, p) == ready

\* an invocation of a login operation whose CREATE TABLE IF NOT EXISTS fails
EnsureFails(p, op, ip) ==
    /\ CanCall(p)
    /\ ~loginIpTableReady[p]
    /\ loginIpTableReady' = FlagAfterFailure(loginIpTableReady, p)
    /\ inv' = [inv EXCEPT ![p] =
                  Throw([Idle EXCEPT !.op = op, !.key = Key(ip)], "createTable")]
    /\ callsLeft' = callsLeft - 1
    /\ UNCHANGED <<clock, tableExists, login_attempts_ip, api_rate_limits, failures,
                   cleared, lastLocked, consumed, ticksLeft,
                   accepted, headers, client>>

\* the caller receives the rejection; the process is free for its next invocation
Caught(p) ==
    /\ inv[p].pc = "failed"
    /\ inv' = [inv EXCEPT ![p] = Idle]
    /\ UNCHANGED <<clock, loginIpTableReady, tableExists, login_attempts_ip,
                   api_rate_limits, failures, cleared, lastLocked, consumed, callsLeft, ticksLeft,
                   accepted, headers, client>>

\* ------------------------------------------------------------- consumeApiWriteBudget
\* const windowEnd = windowStart + CONFIG.API_WINDOW_SECONDS
WindowEnd(windowStart) == windowStart + API_WINDOW_SECONDS

\* faulty variant: a refused call is always told to wait a whole window
ConsumeOutcomeWholeWindow(row, nowSec, windowStart) ==
    IF row = <<>>
    THEN [allowed |-> FALSE, remaining |-> 0, retryAfterSeconds |-> API_WINDOW_SECONDS]
    ELSE [allowed |-> TRUE,
          remaining |-> Max(0, API_WRITE_REQUESTS_PER_MINUTE - row[1].count)]

\* the two returns after the upsert; row is what RETURNING count gave
ConsumeOutcome(row, nowSec, windowStart) ==
    IF row = <<>>
    THEN [allowed |-> FALSE, remaining |-> 0,
          retryAfterSeconds |-> WindowEnd(windowStart) - nowSec]
    ELSE [allowed |-> TRUE,
          remaining |-> Max(0, API_WRITE_REQUESTS_PER_MINUTE - row[1].count)]

\* history: one more call allowed or refused on window row k, whose count was
\* base when the run first touched it
Consumed(k, allowed) ==
    LET was == IF k \in DOMAIN consumed THEN consumed[k]
               ELSE [base |-> IF k \in DOMAIN api_rate_limits
                              THEN api_rate_limits[k].count ELSE 0,
                     allowed |-> 0, refused |-> 0]
    IN  Put(consumed, k,
            IF allowed THEN [was EXCEPT !.allowed = @ + 1]
            ELSE [was EXCEPT !.refused = @ + 1])

\* history: one more call allowed among those of an identifier that sampled a
\* second, where the run tracks that identifier and second
Accepted(at, allowed) ==
    IF allowed /\ at \in DOMAIN accepted
    THEN [accepted EXCEPT ![at] = @ + 1]
    ELSE accepted

ConsumeCall(p, identifier) ==
    /\ CanCall(p)
    /\ inv' = [inv EXCEPT ![p] =
                  [Idle EXCEPT !.pc = "upsert", !.op = "consumeApiWriteBudget",
                               !.key = identifier, !.now = NowSec(clock),
                               !.windowStart = WindowStart(NowSec(clock))]]
    /\ callsLeft' = callsLeft - 1
    /\ UNCHANGED <<clock, loginIpTableReady, tableExists, login_attempts_ip,
                   api_rate_limits, failures, cleared, lastLocked, consumed, ticksLeft,
                   accepted, headers, client>>

\* the atomic conditional UPSERT ... RETURNING count, and the return
\* (api_rate_limits is created with the schema, not by this service)
ConsumeUpsert(p) ==
    LET me == inv[p]
        k == <<me.key, me.windowStart>>
        row == Returning(api_rate_limits, k, API_WRITE_REQUESTS_PER_MINUTE)
        result == ConsumeOutcome(row, me.now, me.windowStart)
    IN  /\ me.pc = "upsert" /\ me.op = "consumeApiWriteBudget"
        /\ api_rate_limits' = UpsertCount(api_rate_limits, k, API_WRITE_REQUESTS_PER_MINUTE)
        /\ consumed' = Consumed(k, result.allowed)
        /\ accepted' = Accepted(<<me.key, me.now>>, result.allowed)
        /\ inv' = [inv EXCEPT ![p].pc = "done", ![p].row = row, ![p].res = <<result>>,
                              ![p].old = First(api_rate_limits, k)]
        /\ UNCHANGED <<clock, loginIpTableReady, tableExists, login_attempts_ip,
                       failures, cleared, lastLocked, callsLeft, ticksLeft,
                       headers, client>>

\* ------------------------------------------------------------- specifications
\* A state of the deployment in which no invocation is running: the tables hold
\* rows that earlier invocations left, every process is a fresh execution context.
\* The run starts at time and keeps the history accepted for the identifiers and
\* sampled seconds in tracked.
StartAt(time, tracked, calls, ticks, attemptsRows, countRows) ==
    /\ clock = time
    /\ loginIpTableReady = [p \in Procs |-> FALSE]
    /\ tableExists = (attemptsRows # <<>>)
    /\ login_attempts_ip = attemptsRows
    /\ api_rate_limits = countRows
    /\ inv = [p \in Procs |-> Idle]
    /\ failures = [k \in LoginKeys |->
                     IF k \in DOMAIN attemptsRows THEN attemptsRows[k].attempts ELSE 0]
    /\ cleared = [k \in LoginKeys |-> FALSE]
    /\ lastLocked = [k \in LoginKeys |-> NULL]
    /\ consumed = <<>>
    /\ callsLeft = calls
    /\ ticksLeft = ticks
    /\ accepted = [at \in tracked |-> 0]
    /\ headers = NoHeaders
    /\ client = NotResolved

Start(calls, ticks, attemptsRows, countRows) ==
    StartAt(0, {}, calls, ticks, attemptsRows, countRows)

\* the row that n recordFailedLogin calls at time 0 leave on a key (none for n = 0)
AfterFailures(ip, n) ==
    IF n = 0 THEN <<>>
    ELSE Put(<<>>, Key(ip), [attempts |-> n, locked_until |-> NULL, updated_at |-> 0])

\* the row that n consumeApiWriteBudget calls leave on the window of time 0
AfterConsumes(identifier, n) ==
    IF n = 0 THEN <<>>
    ELSE Put(<<>>, <<identifier, WindowStart(NowSec(0))>>, [count |-> n])

LoginStep(p, ips) ==
    \/ \E ip \in ips : CheckCall(p, ip)
    \/ CheckSelect(p)
    \/ CheckDelete(p)
    \/ \E ip \in ips : RecordCall(p, ip)
    \/ RecordUpsert(p)
    \/ RecordSelect(p)
    \/ RecordLock(p)
    \/ \E ip \in ips : ClearCall(p, ip)
    \/ ClearDelete(p)
    \/ Return(p)

BudgetStep(p, identifiers) ==
    \/ \E identifier \in identifiers : ConsumeCall(p, identifier)
    \/ ConsumeUpsert(p)
    \/ Return(p)

\* the login attempt guard, invocations interleaved statement by statement, all
\* for one client (its address with and without padding), on a key that has no
\* record or a record one failure below the threshold
SameClient == {ip \in IpInputs : Key(ip) = <<"a">>}
SeedFailures == {0, LOGIN_MAX_ATTEMPTS - 1}
InitLogin ==
    \E n \in SeedFailures :
        Start(MaxCalls, MaxTicks, AfterFailures(<<"a">>, n), <<>>)
NextLogin == Tick(TickSteps) \/ \E p \in Procs : LoginStep(p, SameClient)
SpecLogin == InitLogin /\ [][NextLogin]_vars

\* the login attempt guard, one invocation at a time, for two clients, from the
\* empty table
InitLoginSeq == Start(MaxSeqCalls, MaxSeqTicks, <<>>, <<>>)
NextLoginSeq == Tick(SeqTickSteps) \/ \E p \in SeqProcs : LoginStep(p, IpInputs)
SpecLoginSeq == InitLoginSeq /\ [][NextLoginSeq]_vars

\* the write budget, invocations interleaved, on a window with no row or a row
\* that the calls of one run can fill, exactly or with calls to spare
SeedCounts ==
    {0} \cup (API_WRITE_REQUESTS_PER_MINUTE - MaxCalls .. API_WRITE_REQUESTS_PER_MINUTE)
InitBudget ==
    \E n \in SeedCounts :
        Start(MaxCalls, MaxBudgetTicks, <<>>, AfterConsumes(<<"a">>, n))
NextBudget == Tick(BudgetTickSteps) \/ \E p \in Procs : BudgetStep(p, IdentifierInputs)
SpecBudget == InitBudget /\ [][NextBudget]_vars

\* the write budget, one invocation at a time for one identifier, from the
\* empty table
InitBudgetSeq == Start(MaxRunCalls, MaxRunTicks, <<>>, <<>>)
NextBudgetSeq == Tick(BudgetTickSteps) \/ \E p \in SeqProcs : BudgetStep(p, {<<"a">>})
SpecBudgetSeq == InitBudgetSeq /\ [][NextBudgetSeq]_vars

\* the write budget across a window boundary, one invocation at a time for one
\* identifier, from the empty table: the run starts in the last second of a
\* window, at its last millisecond, and the clock advances by milliseconds
SpanStart == API_WINDOW_SECONDS * 1000 - 1
SpanTickSteps == {1}
SpanSeconds == NowSec(SpanStart) .. NowSec(SpanStart + MaxSpanTicks)
InitBudgetSpan ==
    StartAt(SpanStart, {<<"a">>} \X SpanSeconds, MaxSpanCalls, MaxSpanTicks, <<>>, <<>>)
NextBudgetSpan == Tick(SpanTickSteps) \/ \E p \in SeqProcs : BudgetStep(p, {<<"a">>})
SpecBudgetSpan == InitBudgetSpan /\ [][NextBudgetSpan]_vars

\* the resolution of the client of one request
Receive(request) ==
    /\ headers = NoHeaders /\ ~client.resolved
    /\ headers' = request
    /\ UNCHANGED <<clock, loginIpTableReady, tableExists, login_attempts_ip,
                   api_rate_limits, inv, failures, cleared, lastLocked, consumed,
                   callsLeft, ticksLeft, accepted, client>>

Resolve ==
    /\ ~client.resolved
    /\ client' = [resolved |-> TRUE, value |-> getClientIdentifier(headers)]
    /\ UNCHANGED <<clock, loginIpTableReady, tableExists, login_attempts_ip,
                   api_rate_limits, inv, failures, cleared, lastLocked, consumed,
                   callsLeft, ticksLeft, accepted, headers>>

InitIdentifier == Start(0, 0, <<>>, <<>>)
NextIdentifier ==
    \/ \E cf, xff \in HeaderInputs : Receive([cf |-> cf, xff |-> xff])
    \/ Resolve
SpecIdentifier == InitIdentifier /\ [][NextIdentifier]_vars

\* the four operations with a store whose statements may fail, invocations
\* interleaved, all for one client
LoginOps == {"checkLoginAttempt", "recordFailedLogin", "clearLoginAttempts"}
FaultStep(p) ==
    \/ StoreFails(p)
    \/ \E op \in LoginOps, ip \in SameClient : EnsureFails(p, op, ip)
    \/ Caught(p)
InitFault ==
    \E n \in SeedFailures :
        Start(MaxFaultCalls, MaxTicks, AfterFailures(<<"a">>, n), <<>>)
NextFault ==
    \/ Tick(TickSteps)
    \/ \E p \in Procs : LoginStep(p, SameClient)
    \/ \E p \in Procs : BudgetStep(p, {<<"a">>})
    \/ \E p \in Procs : FaultStep(p)
SpecFault == InitFault /\ [][NextFault]_vars

\* ------------------------------------------------------------- properties
Min(a, b) == IF a <= b THEN a ELSE b

Running(p, op) == inv[p].op = op /\ inv[p].pc # "idle"
Returned(p, op) == inv[p].op = op /\ inv[p].pc = "done"

\* the window row an invocation of consumeApiWriteBudget works on
RowKey(p) == <<inv[p].key, inv[p].windowStart>>

\* calls that have executed their upsert on a window row since the start
Calls(k) == consumed[k].allowed + consumed[k].refused

\* C1: in every reachable state, whatever the interleaving of the
\* consumeApiWriteBudget invocations, every stored window row has a count of at
\* least 1 and at most the per-window limit (120).
C1_CountWithinLimit ==
    \A k \in DOMAIN api_rate_limits :
        /\ api_rate_limits[k].count >= 1
        /\ api_rate_limits[k].count <= API_WRITE_REQUESTS_PER_MINUTE

\* C1 witness: two invocations are in flight on one window row at once, one has
\* taken the last unit of the budget and the other has been refused.
C1_Witness ==
    /\ Returned(1, "consumeApiWriteBudget") /\ Returned(2, "consumeApiWriteBudget")
    /\ RowKey(1) = RowKey(2)
    /\ inv[1].res[1].allowed /\ inv[1].res[1].remaining = 0
    /\ ~inv[2].res[1].allowed
    /\ api_rate_limits[RowKey(1)].count = API_WRITE_REQUESTS_PER_MINUTE

\* C2: of the M invocations that have executed on a window row whose count was c
\* when they started (0 when there was no row), exactly min(M, limit - c) were
\* allowed, the others refused, and the stored count is min(limit, c + M).
C2_ExactAccounting ==
    \A k \in DOMAIN consumed :
        /\ consumed[k].allowed =
               Min(Calls(k), API_WRITE_REQUESTS_PER_MINUTE - consumed[k].base)
        /\ k \in DOMAIN api_rate_limits
        /\ api_rate_limits[k].count =
               Min(API_WRITE_REQUESTS_PER_MINUTE, consumed[k].base + Calls(k))

\* C2 witness: three calls on a row that had room for one: two of them are in
\* flight together, one was allowed and two refused.
C2_Witness ==
    \E k \in DOMAIN consumed :
        /\ consumed[k].base = API_WRITE_REQUESTS_PER_MINUTE - 1
        /\ consumed[k].allowed = 1 /\ consumed[k].refused = 2
        /\ Returned(1, "consumeApiWriteBudget") /\ Returned(2, "consumeApiWriteBudget")
        /\ RowKey(1) = k /\ RowKey(2) = k

\* C3: the stored attempts of a key equal the number of recordFailedLogin upserts
\* executed on it since its record was last absent or seeded (each invocation
\* executes exactly one), under every interleaving: none lost, none counted twice.
C3_NoLostFailure ==
    \A k \in LoginKeys :
        IF k \in DOMAIN login_attempts_ip
        THEN login_attempts_ip[k].attempts = failures[k]
        ELSE failures[k] = 0

\* C3 witness: two recordFailedLogin invocations on one key are both past their
\* upsert and neither has returned to its caller; the count went up by two.
C3_Witness ==
    /\ Running(1, "recordFailedLogin") /\ Running(2, "recordFailedLogin")
    /\ inv[1].key = inv[2].key
    /\ inv[1].pc # "upsert" /\ inv[2].pc # "upsert"
    /\ inv[1].old # <<>> /\ inv[2].old # <<>>
    /\ inv[1].old[1].attempts = inv[2].old[1].attempts - 1
    /\ login_attempts_ip[inv[1].key].attempts = inv[1].old[1].attempts + 2

\* the MAX_ATTEMPTS-th failure on the key of p has returned locked, and the
\* lockout counted from that call's now has not elapsed at the now of p
LockedJustBefore(p) ==
    /\ failures[inv[p].key] = LOGIN_MAX_ATTEMPTS
    /\ lastLocked[inv[p].key] # NULL
    /\ inv[p].now < lastLocked[inv[p].key] + LOCKOUT_DURATION

\* C4: a checkLoginAttempt made after the MAX_ATTEMPTS-th recordFailedLogin
\* returned locked, before the lockout has elapsed and with no clear in between,
\* returns allowed=false, remainingAttempts=0 and 0 < retryAfterSeconds <= 120.
C4_LockedAfterThreshold ==
    \A p \in Procs :
        Returned(p, "checkLoginAttempt") /\ LockedJustBefore(p) =>
            /\ DOMAIN inv[p].res[1] = {"allowed", "remainingAttempts", "retryAfterSeconds"}
            /\ ~inv[p].res[1].allowed
            /\ inv[p].res[1].remainingAttempts = 0
            /\ inv[p].res[1].retryAfterSeconds > 0
            /\ inv[p].res[1].retryAfterSeconds <= LOCKOUT_SECONDS

\* C4 witness: such a check made one millisecond before the lock expires.
C4_Witness ==
    \E p \in Procs :
        /\ Returned(p, "checkLoginAttempt") /\ LockedJustBefore(p)
        /\ inv[p].now = lastLocked[inv[p].key] + LOCKOUT_DURATION - 1
        /\ inv[p].res[1].retryAfterSeconds = 1

\* C5: after k < MAX_ATTEMPTS sequential recordFailedLogin calls on a key that
\* had no record, checkLoginAttempt returns exactly allowed=true and
\* remainingAttempts = MAX_ATTEMPTS - k, with no retryAfterSeconds.
C5_RemainingAfterFailures ==
    \A p \in Procs :
        Returned(p, "checkLoginAttempt") /\ failures[inv[p].key] < LOGIN_MAX_ATTEMPTS =>
            inv[p].res[1] =
                [allowed |-> TRUE,
                 remainingAttempts |-> LOGIN_MAX_ATTEMPTS - failures[inv[p].key]]

\* C5 witness: a check after MAX_ATTEMPTS - 1 failures, one attempt remaining.
C5_Witness ==
    \E p \in Procs :
        /\ Returned(p, "checkLoginAttempt")
        /\ failures[inv[p].key] = LOGIN_MAX_ATTEMPTS - 1
        /\ inv[p].res[1].remainingAttempts = 1

\* C6: sequential recordFailedLogin calls number 1 to MAX_ATTEMPTS - 1 on a key
\* that had no record return locked=false and leave no lock; call number
\* MAX_ATTEMPTS returns locked=true, retryAfterSeconds=120 and stores lockedUntil =
\* its now + LOCKOUT_DURATION; and a call returns locked=true exactly when the
\* attempts it read after its increment have reached MAX_ATTEMPTS.
C6_LockAtThreshold ==
    \A p \in Procs :
        Returned(p, "recordFailedLogin") =>
            LET n == failures[inv[p].key]
                res == inv[p].res[1]
                stored == login_attempts_ip[inv[p].key]
            IN  /\ n >= 1 /\ inv[p].row = <<[attempts |-> n]>>
                /\ n < LOGIN_MAX_ATTEMPTS =>
                       res = [locked |-> FALSE] /\ stored.locked_until = NULL
                /\ n = LOGIN_MAX_ATTEMPTS =>
                       /\ res = [locked |-> TRUE, retryAfterSeconds |-> 120]
                       /\ stored.locked_until = inv[p].now + LOCKOUT_DURATION
                /\ res.locked <=> inv[p].row[1].attempts >= LOGIN_MAX_ATTEMPTS

\* C6 witness: the MAX_ATTEMPTS-th call has returned locked.
C6_Witness ==
    \E p \in Procs :
        /\ Returned(p, "recordFailedLogin")
        /\ failures[inv[p].key] = LOGIN_MAX_ATTEMPTS
        /\ inv[p].old # <<>> /\ inv[p].old[1].locked_until = NULL
        /\ inv[p].res[1].locked

\* the SELECT of p's checkLoginAttempt read a lock that its now has reached
ReadExpiredLock(p) ==
    /\ inv[p].row # <<>>
    /\ inv[p].row[1].locked_until # NULL
    /\ inv[p].row[1].locked_until <= inv[p].now

\* C7: a checkLoginAttempt that finds a lockedUntil no longer in the future
\* (lockedUntil <= now) returns allowed=true with remainingAttempts =
\* MAX_ATTEMPTS and has deleted the record.
C7_ExpiredLockResets ==
    \A p \in Procs :
        Returned(p, "checkLoginAttempt") /\ ReadExpiredLock(p) =>
            /\ inv[p].res[1] =
                   [allowed |-> TRUE, remainingAttempts |-> LOGIN_MAX_ATTEMPTS]
            /\ inv[p].key \notin DOMAIN login_attempts_ip

\* C7 witness: the check was made at the very instant the lock expired, on a
\* record that had counted MAX_ATTEMPTS failures.
C7_Witness ==
    \E p \in Procs :
        /\ Returned(p, "checkLoginAttempt") /\ ReadExpiredLock(p)
        /\ inv[p].row[1].locked_until = inv[p].now
        /\ inv[p].row[1].attempts = LOGIN_MAX_ATTEMPTS

\* C8: a checkLoginAttempt whose SELECT runs after a clearLoginAttempts deleted
\* the key, with no recordFailedLogin statement on the key in between, returns
\* allowed=true and remainingAttempts = MAX_ATTEMPTS, whatever the record was
\* before the clear and whatever else is in flight.
C8_ClearThenCheck ==
    \A p \in Procs :
        Returned(p, "checkLoginAttempt") /\ inv[p].afterClear =>
            inv[p].res[1] = [allowed |-> TRUE, remainingAttempts |-> LOGIN_MAX_ATTEMPTS]

\* C8 witness: the clear removed a record that had reached the threshold, while
\* the recordFailedLogin that is about to lock it is still in flight.
C8_Witness ==
    \E p, q \in Procs :
        /\ Returned(p, "checkLoginAttempt") /\ inv[p].afterClear
        /\ inv[q].op = "recordFailedLogin" /\ inv[q].pc = "updateLock"
        /\ inv[q].key = inv[p].key

\* C9: in a fresh window, sequential call number n of consumeApiWriteBudget
\* returns allowed=true with remaining = 120 - n for n <= 120, and every later
\* call returns allowed=false, remaining=0 and retryAfterSeconds = windowStart +
\* W - now, between 1 and W.
C9_BudgetCountdown ==
    \A p \in Procs :
        Returned(p, "consumeApiWriteBudget") =>
            LET n == Calls(RowKey(p))
                res == inv[p].res[1]
            IN  /\ consumed[RowKey(p)].base = 0
                /\ n <= API_WRITE_REQUESTS_PER_MINUTE =>
                       res = [allowed |-> TRUE,
                              remaining |-> API_WRITE_REQUESTS_PER_MINUTE - n]
                /\ n > API_WRITE_REQUESTS_PER_MINUTE =>
                       /\ res = [allowed |-> FALSE, remaining |-> 0,
                                 retryAfterSeconds |->
                                     inv[p].windowStart + API_WINDOW_SECONDS - inv[p].now]
                       /\ res.retryAfterSeconds >= 1
                       /\ res.retryAfterSeconds <= API_WINDOW_SECONDS

\* C9 witness: call number 121, made in the last second of its window, is refused
\* with one second to wait.
C9_Witness ==
    \E p \in Procs :
        /\ Returned(p, "consumeApiWriteBudget")
        /\ Calls(RowKey(p)) = API_WRITE_REQUESTS_PER_MINUTE + 1
        /\ ~inv[p].res[1].allowed
        /\ inv[p].res[1].retryAfterSeconds = 1

\* the upsert of p's recordFailedLogin hit a record whose lock had expired
RecordedAfterExpiry(p) ==
    /\ inv[p].old # <<>>
    /\ inv[p].old[1].locked_until # NULL
    /\ inv[p].old[1].locked_until <= inv[p].now

\* C10 (as claimed): a recordFailedLogin made once the lock has expired counts as
\* the first failure of a fresh budget: it returns locked=false and leaves a
\* record with attempts = 1 and no lock.
C10_RecordAfterExpiryResets ==
    \A p \in Procs :
        Returned(p, "recordFailedLogin") /\ RecordedAfterExpiry(p) =>
            /\ inv[p].res[1] = [locked |-> FALSE]
            /\ login_attempts_ip[inv[p].key].attempts = 1
            /\ login_attempts_ip[inv[p].key].locked_until = NULL

\* C11: when a store statement of checkLoginAttempt, recordFailedLogin,
\* clearLoginAttempts or consumeApiWriteBudget fails, the invocation ends with
\* that error: it holds no allowed/locked result, and the only thing that ever
\* happens to it afterwards is that its caller receives the error -- it issues no
\* further statement and does not issue the failed one again, so the step that
\* ends it leaves both tables as they are.
C11_FailurePropagates ==
    [][\A p \in Procs :
          /\ inv'[p].error # <<>> =>
                 /\ inv'[p].pc = "failed"
                 /\ inv'[p].res = <<>>
          /\ inv[p].pc = "failed" /\ inv'[p] # inv[p] =>
                 /\ inv'[p] = Idle
                 /\ login_attempts_ip' = login_attempts_ip
                 /\ api_rate_limits' = api_rate_limits]_vars

\* C11 witness: a recordFailedLogin whose upsert was applied to an existing
\* record has ended with the failure of its SELECT, while the other process is
\* still running an invocation.
C11_Witness ==
    \E p, q \in Procs :
        /\ inv[p].op = "recordFailedLogin" /\ inv[p].pc = "failed"
        /\ inv[p].error = <<"selectAttempts">>
        /\ inv[p].old # <<>>
        /\ q # p /\ inv[q].pc \in Statements

\* C12: the schema-ready flag is transparent.  A process's flag is set only
\* while the table exists, that is only after a CREATE TABLE IF NOT EXISTS has
\* succeeded; and every invocation of a login operation that gets past
\* ensureLoginIpTable, with the flag set or unset on entry, starts its statements
\* in exactly the store that running CREATE TABLE IF NOT EXISTS before it would
\* give: the table exists and its records are the ones it held before.
C12_FlagIsTransparent ==
    [][\A p \in Procs :
          /\ loginIpTableReady'[p] => tableExists'
          /\ inv[p].pc = "idle" /\ inv'[p].pc \in Statements /\ inv'[p].op \in LoginOps =>
                 /\ tableExists'
                 /\ loginIpTableReady'[p]
                 /\ login_attempts_ip' = login_attempts_ip]_vars

\* C12 witness: on a table that did not exist at the start, a checkLoginAttempt
\* that ran with the flag already set (it skipped the CREATE TABLE) has reported
\* the failure an earlier invocation of the same process recorded, while the
\* other process has its flag still unset.
C12_Witness ==
    /\ Returned(1, "checkLoginAttempt")
    /\ inv[1].res[1].remainingAttempts = LOGIN_MAX_ATTEMPTS - 1
    /\ loginIpTableReady[1] /\ ~loginIpTableReady[2]
    /\ tableExists

\* C13: getClientIdentifier returns the CF-Connecting-IP value when that header
\* is present and non-empty; otherwise the trimmed first comma-separated entry of
\* X-Forwarded-For when that header gives one; otherwise, whenever no identifying
\* value is available, the sentinel "unknown".
C13_IdentifierResolution ==
    client.resolved =>
        client.value =
            IF headers.cf.present /\ headers.cf.value # <<>>
            THEN headers.cf.value
            ELSE IF headers.xff.present /\ Trim(FirstEntry(headers.xff.value)) # <<>>
            THEN Trim(FirstEntry(headers.xff.value))
            ELSE unknown

\* C14: a record leaves the table only through the DELETE of clearLoginAttempts
\* or the DELETE of a checkLoginAttempt, and the record a checkLoginAttempt
\* deletes is, at the moment of the delete, a record whose lock has elapsed and
\* whose attempts are the ones the check read; a checkLoginAttempt that returns
\* straight after its SELECT (no record, active lock, no lock) leaves the table
\* as it is.
C14_DeleteOnlyElapsed ==
    [][/\ \A k \in DOMAIN login_attempts_ip :
              k \notin DOMAIN login_attempts_ip' =>
                 \E p \in Procs :
                     /\ inv[p].pc = "delete" /\ inv'[p].pc = "done" /\ inv[p].key = k
                     /\ \/ inv[p].op = "clearLoginAttempts"
                        \/ /\ inv[p].op = "checkLoginAttempt"
                           /\ login_attempts_ip[k].locked_until # NULL
                           /\ login_attempts_ip[k].locked_until <= clock
                           /\ login_attempts_ip[k].attempts = inv[p].row[1].attempts
       /\ \A p \in Procs :
              inv[p].op = "checkLoginAttempt" /\ inv[p].pc = "select" /\ inv'[p].pc = "done" =>
                 login_attempts_ip' = login_attempts_ip]_vars

\* C15: the lock UPDATE of a recordFailedLogin stores a locked_until that is
\* strictly later than the time at which the UPDATE is applied, however much
\* time has passed since the invocation read the clock; and every stored record
\* has attempts >= 0.
C15_LockInFuture ==
    [][/\ \A p \in Procs :
              /\ inv[p].op = "recordFailedLogin"
              /\ inv[p].pc = "updateLock" /\ inv'[p].pc = "done"
              /\ inv[p].key \in DOMAIN login_attempts_ip'
              => login_attempts_ip'[inv[p].key].locked_until > clock'
       /\ \A k \in DOMAIN login_attempts_ip' : login_attempts_ip'[k].attempts >= 0]_vars

\* the calls allowed for an identifier among those that sampled a second in lo .. hi
RECURSIVE AcceptedAt(_)
AcceptedAt(ats) ==
    IF ats = {} THEN 0
    ELSE LET at == CHOOSE x \in ats : TRUE
         IN  accepted[at] + AcceptedAt(ats \ {at})

AcceptedWithin(id, lo, hi) ==
    AcceptedAt({at \in DOMAIN accepted : at[1] = id /\ at[2] \in lo .. hi})

\* C16: for one identifier, the calls allowed among those whose sampled times
\* lie in a span of W seconds (a span may be taken to begin at a sampled second)
\* are at most twice the limit, and those whose sampled times lie in one aligned
\* window [windowStart, windowStart + W) are at most the limit.
C16_SpanBound ==
    \A at \in DOMAIN accepted :
        /\ AcceptedWithin(at[1], at[2], at[2] + API_WINDOW_SECONDS - 1)
               <= 2 * API_WRITE_REQUESTS_PER_MINUTE
        /\ AcceptedWithin(at[1], WindowStart(at[2]), WindowEnd(WindowStart(at[2])) - 1)
               <= API_WRITE_REQUESTS_PER_MINUTE

\* C16 witness: exactly twice the limit was allowed within two seconds, the
\* limit in the last second of one window and the limit in the first second of
\* the next, and the call after those has been refused.
C16_Witness ==
    /\ accepted[<<<<"a">>, API_WINDOW_SECONDS - 1>>] = API_WRITE_REQUESTS_PER_MINUTE
    /\ accepted[<<<<"a">>, API_WINDOW_SECONDS>>] = API_WRITE_REQUESTS_PER_MINUTE
    /\ Returned(1, "consumeApiWriteBudget") /\ ~inv[1].res[1].allowed
    /\ inv[1].now = API_WINDOW_SECONDS

\* C17: the upsert of a consumeApiWriteBudget that is refused leaves both tables
\* as they are, its own window row standing at the limit; the upsert of one that
\* is allowed changes only the row of its own (identifier, windowStart), which
\* it creates with count 1 or raises by exactly one; and no step ever deletes a
\* window row or lowers a count.
C17_ConsumeFrame ==
    [][/\ \A p \in Procs :
              inv[p].op = "consumeApiWriteBudget" /\ inv[p].pc = "upsert" /\ inv'[p].pc = "done" =>
                 /\ login_attempts_ip' = login_attempts_ip
                 /\ IF inv'[p].res[1].allowed
                    THEN /\ DOMAIN api_rate_limits' = DOMAIN api_rate_limits \cup {RowKey(p)}
                         /\ \A k \in DOMAIN api_rate_limits \ {RowKey(p)} :
                                api_rate_limits'[k] = api_rate_limits[k]
                         /\ api_rate_limits'[RowKey(p)].count =
                                IF RowKey(p) \in DOMAIN api_rate_limits
                                THEN api_rate_limits[RowKey(p)].count + 1
                                ELSE 1
                    ELSE /\ api_rate_limits' = api_rate_limits
                         /\ api_rate_limits[RowKey(p)].count = API_WRITE_REQUESTS_PER_MINUTE
       /\ \A k \in DOMAIN api_rate_limits :
              /\ k \in DOMAIN api_rate_limits'
              /\ api_rate_limits'[k].count >= api_rate_limits[k].count]_vars

\* C17 witness: a call has been refused on a full window row while the store
\* also holds the row another identifier's call has created, and an allowed call
\* of the other process has raised an existing row.
C17_Witness ==
    \E p, q \in Procs :
        /\ Returned(p, "consumeApiWriteBudget") /\ ~inv[p].res[1].allowed
        /\ api_rate_limits[RowKey(p)].count = API_WRITE_REQUESTS_PER_MINUTE
        /\ \E k \in DOMAIN api_rate_limits :
               k[1] # inv[p].key /\ api_rate_limits[k].count = 1
        /\ Returned(q, "consumeApiWriteBudget") /\ inv[q].res[1].allowed
        /\ inv[q].old # <<>>

\* C18: in every reachable state a stored record whose locked_until is set has
\* attempts >= LOGIN_MAX_ATTEMPTS.
C18_LockedHasMaxAttempts ==
    \A k \in DOMAIN login_attempts_ip :
        login_attempts_ip[k].locked_until # NULL =>
            login_attempts_ip[k].attempts >= LOGIN_MAX_ATTEMPTS

\* C19: a checkLoginAttempt that returns allowed = true returns
\* remainingAttempts >= 1.
C19_AllowedHasAttemptsLeft ==
    \A p \in Procs :
        Returned(p, "checkLoginAttempt") /\ inv[p].res[1].allowed =>
            inv[p].res[1].remainingAttempts >= 1

\* C20: while a record exists, no step moves its locked_until to an earlier
\* time (or takes the lock off).
C20_LockNeverEarlier ==
    [][\A k \in DOMAIN login_attempts_ip :
          k \in DOMAIN login_attempts_ip' /\ login_attempts_ip[k].locked_until # NULL =>
             login_attempts_ip'[k].locked_until >= login_attempts_ip[k].locked_until]_vars

====
